---- MODULE Spec2Model ----
(***************************************************************************)
(* Model of the rust-optimizer crate of strategic-mind-games: the game     *)
(* tree (move generation, move application, terminal test), the           *)
(* five-term evaluator, minimax and alpha-beta search (sequential and     *)
(* parallel root fan-out).                                                 *)
(*                                                                         *)
(* Number representation.  The crate computes in f64.  Every quantity the  *)
(* evaluator produces from the inputs drawn here is a rational with a      *)
(* denominator dividing EvalScale, so scores are kept as integers in       *)
(* units of 1/EvalScale.  Boldness is kept in tenths and confidence in     *)
(* hundredths.  Option<T> is a sequence of length 0 (None) or 1 (Some).    *)
(***************************************************************************)
EXTENDS Integers, Sequences, FiniteSets, TLC

VARIABLES
    state,     \* the GameState handed to the crate by the caller
    player,    \* the Player handed to the crate by the caller
    oracle,    \* the claims for which the random draw of apply_move says "held"
    searcher,  \* Option of the live MinimaxSearch / AlphaBetaSearch object
    result,    \* Option<SearchResult>: what the last search() call returned
    call       \* Option of the last direct call of a GameTree / Evaluator function
               \* on (state, player): its name, its other arguments, its return value

vars == <<state, player, oracle, searcher, result, call>>

None == <<>>
Some(x) == <<x>>

(***************************************************************************)
(* Bounds of the model.                                                     *)
(***************************************************************************)
\* Trust values are drawn within Spread of each threshold the code tests.
Spread == 1
\* Largest depth bound a searcher is constructed with.
MaxDepth == 4
\* An oracle decides freely on the first OracleWidth generated claims and
\* gives the other claims one common outcome.
OracleWidth == 2

(***************************************************************************)
(* lib.rs: the data model.                                                  *)
(***************************************************************************)
Player1 == "Player1"
Player2 == "Player2"
Players == {Player1, Player2}

opponent(p) == IF p = Player1 THEN Player2 ELSE Player1

Phases == {"Claim", "Challenge", "Resolution"}
ClaimTypes == <<"Information", "Prediction", "Accusation", "Alliance">>
Actions == {"MakeClaim", "Challenge", "Accept"}

Claim(d, t, b, bluff) ==
    [description |-> d, claim_type |-> t, boldness |-> b, is_bluff |-> bluff]

Move(a, p, c, conf) ==
    [action |-> a, player |-> p, claim |-> c, confidence |-> conf]

GameState(r, ph, t1, t2, c, h) ==
    [round |-> r, phase |-> ph, player1_trust |-> t1, player2_trust |-> t2,
     current_claim |-> c, move_history |-> h]

(***************************************************************************)
(* game_tree.rs                                                             *)
(***************************************************************************)
\* vec![0.2, 0.4, 0.6, 0.8], in tenths
boldness_levels == <<2, 4, 6, 8>>

generate_claim_moves(s, p) ==
    [i \in 1..(Len(boldness_levels) * Len(ClaimTypes)) |->
        LET boldness   == boldness_levels[((i - 1) \div Len(ClaimTypes)) + 1]
            claim_type == ClaimTypes[((i - 1) % Len(ClaimTypes)) + 1]
            claim      == Claim(<<"Generated claim with boldness", boldness>>,
                                claim_type, boldness, boldness > 5)
        IN  Move("MakeClaim", p, Some(claim), 100 - (boldness * 3))]

\* the two challenge-phase moves in the other order
challenge_moves_accept_first(s, p) ==
    << Move("Accept", p, None, 60),
       Move("Challenge", p, None, 70) >>

generate_challenge_moves(s, p) ==
    << Move("Challenge", p, None, 70),
       Move("Accept", p, None, 60) >>

\* the game going on after a resolution: Resolution answered like Challenge
generate_moves_after_resolution(s, p) ==
    CASE s.phase = "Claim"      -> generate_claim_moves(s, p)
      [] s.phase = "Challenge"  -> generate_challenge_moves(s, p)
      [] s.phase = "Resolution" -> generate_challenge_moves(s, p)

generate_moves(s, p) ==
    CASE s.phase = "Claim"      -> generate_claim_moves(s, p)
      [] s.phase = "Challenge"  -> generate_challenge_moves(s, p)
      [] s.phase = "Resolution" -> <<>>

AddTrust(s, p, d) ==
    IF p = Player1
    THEN [s EXCEPT !.player1_trust = @ + d]
    ELSE [s EXCEPT !.player2_trust = @ + d]

\* an Accept that credits the accepting player, not the claim maker
apply_move_accept_credits_self(s, m, is_successful) ==
    LET new_state ==
            IF m.action = "MakeClaim"
            THEN [s EXCEPT !.current_claim = m.claim, !.phase = "Challenge"]
            ELSE LET r == [s EXCEPT !.phase = "Resolution"]
                 IN  IF r.current_claim = None
                     THEN r
                     ELSE IF m.action = "Challenge"
                          THEN IF ~is_successful
                               THEN AddTrust(r, m.player, 15)
                               ELSE AddTrust(r, m.player, -15)
                          ELSE AddTrust(r, m.player, 5)
    IN  [new_state EXCEPT !.move_history = Append(@, m)]

\* the applied move put in front of the history
apply_move_prepends(s, m, is_successful) ==
    LET new_state ==
            IF m.action = "MakeClaim"
            THEN [s EXCEPT !.current_claim = m.claim, !.phase = "Challenge"]
            ELSE LET r == [s EXCEPT !.phase = "Resolution"]
                 IN  IF r.current_claim = None
                     THEN r
                     ELSE IF m.action = "Challenge"
                          THEN IF ~is_successful
                               THEN AddTrust(r, m.player, 15)
                               ELSE AddTrust(r, m.player, -15)
                          ELSE AddTrust(r, opponent(m.player), 5)
    IN  [new_state EXCEPT !.move_history = <<m>> \o @]

\* is_successful stands for the draw rand::random::<f64>() < success_prob.
apply_move(s, m, is_successful) ==
    LET new_state ==
            IF m.action = "MakeClaim"
            THEN [s EXCEPT !.current_claim = m.claim, !.phase = "Challenge"]
            ELSE LET r == [s EXCEPT !.phase = "Resolution"]
                 IN  IF r.current_claim = None
                     THEN r
                     ELSE IF m.action = "Challenge"
                          THEN IF ~is_successful
                               THEN AddTrust(r, m.player, 15)
                               ELSE AddTrust(r, m.player, -15)
                          ELSE AddTrust(r, opponent(m.player), 5)
    IN  [new_state EXCEPT !.move_history = Append(@, m)]

\* the round limit tested with > in place of >=
is_terminal_after_round_limit(s) ==
    \/ s.round > 20
    \/ s.player1_trust >= 100
    \/ s.player2_trust >= 100
    \/ s.player1_trust <= -50
    \/ s.player2_trust <= -50

is_terminal(s) ==
    \/ s.round >= 20
    \/ s.player1_trust >= 100
    \/ s.player2_trust >= 100
    \/ s.player1_trust <= -50
    \/ s.player2_trust <= -50

(***************************************************************************)
(* evaluation.rs                                                            *)
(***************************************************************************)
\* One unit of f64 score is EvalScale integer units.
EvalScale == 6000

\* EvaluationWeights::default(), in tenths
W_trust_differential == 10
W_trust_absolute == 5
W_round_progress == 3
W_momentum == 7
W_position_advantage == 8

Max(a, b) == IF a >= b THEN a ELSE b
Min(a, b) == IF a <= b THEN a ELSE b

my_trust(s, p)  == IF p = Player1 THEN s.player1_trust ELSE s.player2_trust
opp_trust(s, p) == IF p = Player1 THEN s.player2_trust ELSE s.player1_trust

\* the differential taken as player1 - player2 whoever is evaluated
trust_differential_of_player1(s, p) ==
    LET differential == s.player1_trust - s.player2_trust
    IN  Min(Max((differential * EvalScale) \div 3, -50 * EvalScale), 50 * EvalScale)

evaluate_trust_differential(s, p) ==
    LET differential == my_trust(s, p) - opp_trust(s, p)
    IN  Min(Max((differential * EvalScale) \div 3, -50 * EvalScale), 50 * EvalScale)

evaluate_trust_absolute(s, p) ==
    IF my_trust(s, p) >= 80 THEN 20 * EvalScale
    ELSE IF my_trust(s, p) <= 0 THEN -20 * EvalScale
    ELSE 0

\* progress = round / 20; progress > 0.75 iff round * 4 > 3 * 20;
\* lead * (progress * 2.0) = lead * round / 10
evaluate_round_progress(s, p) ==
    IF s.round * 4 > 3 * 20
    THEN LET lead == my_trust(s, p) - opp_trust(s, p)
         IN  (lead * s.round * EvalScale) \div 10
    ELSE 0

RECURSIVE SumConfidence(_)
SumConfidence(ms) ==
    IF ms = <<>> THEN 0 ELSE Head(ms).confidence + SumConfidence(Tail(ms))

evaluate_momentum(s, p) ==
    IF Len(s.move_history) < 3 THEN 0
    ELSE LET n            == Len(s.move_history)
             recent_moves == SubSeq(s.move_history, Max(n - 5, 0) + 1, n)
             my_moves     == SelectSeq(recent_moves, LAMBDA m : m.player = p)
         IN  IF my_moves = <<>> THEN 0
             ELSE \* (confidence_avg - 0.5) * 20.0, confidences in hundredths
                  ((SumConfidence(my_moves) * 20 * EvalScale) \div (100 * Len(my_moves)))
                      - 10 * EvalScale

\* the position terms of the evaluated player only, the opponent's left out
position_advantage_own_only(s, p) ==
      (IF my_trust(s, p) >= 90  THEN 30 * EvalScale ELSE 0)
    - (IF my_trust(s, p) <= -40 THEN 25 * EvalScale ELSE 0)

evaluate_position_advantage(s, p) ==
      (IF my_trust(s, p)  >= 90  THEN 30 * EvalScale ELSE 0)
    + (IF opp_trust(s, p) <= -40 THEN 25 * EvalScale ELSE 0)
    - (IF my_trust(s, p)  <= -40 THEN 25 * EvalScale ELSE 0)
    - (IF opp_trust(s, p) >= 90  THEN 30 * EvalScale ELSE 0)

weighted_sum(s, p) ==
      (evaluate_trust_differential(s, p) * W_trust_differential) \div 10
    + (evaluate_trust_absolute(s, p)     * W_trust_absolute) \div 10
    + (evaluate_round_progress(s, p)     * W_round_progress) \div 10
    + (evaluate_momentum(s, p)           * W_momentum) \div 10
    + (evaluate_position_advantage(s, p) * W_position_advantage) \div 10

\* the weighted sum passed on as it is
unclamped_score(score) == score

clamp_score(score) == Min(Max(score, -100 * EvalScale), 100 * EvalScale)

evaluate(s, p) == clamp_score(weighted_sum(s, p))

(***************************************************************************)
(* The random source of apply_move.  A search expands every node at most    *)
(* once and every generated path carries a distinct pending claim, so the   *)
(* draws of one search are a choice, per pending claim, of whether the      *)
(* claim held.  o is the set of claim keys for which the draw says so.      *)
(***************************************************************************)
ClaimKey(c) == <<c.boldness, c.claim_type>>

\* a transition model without chance: the claim never holds
draw_never_holds(s, o) == FALSE

draw(s, o) == s.current_claim # None /\ ClaimKey(s.current_claim[1]) \in o

(***************************************************************************)
(* minimax.rs                                                               *)
(***************************************************************************)
NEG_INFINITY == -2000000000
INFINITY == 2000000000

\* the leaf return of minimax / alpha_beta: one node counted, no move
\* a leaf scored for the other player
leaf_for_opponent(s, p) == [move |-> None, eval |-> evaluate(s, opponent(p)), nodes |-> 1]

leaf(s, p) == [move |-> None, eval |-> evaluate(s, p), nodes |-> 1]

\* a comparison that lets an equal evaluation replace the kept move
improves_or_equals(is_maximizing, eval, best_eval) ==
    IF is_maximizing THEN eval >= best_eval ELSE eval <= best_eval

\* `if eval > max_eval` at a maximizing node, `if eval < min_eval` at a minimizing one
improves(is_maximizing, eval, best_eval) ==
    IF is_maximizing THEN eval > best_eval ELSE eval < best_eval

RECURSIVE minimax(_, _, _, _, _), minimax_loop(_, _, _, _, _, _, _, _)

\* the `for move_candidate in moves` loop of either branch, from index i on,
\* with acc = (best_move, max_eval/min_eval, nodes counted so far)
minimax_loop(s, depth, p, is_maximizing, o, moves, i, acc) ==
    IF i > Len(moves) THEN acc
    ELSE LET move_candidate == moves[i]
             new_state == apply_move(s, move_candidate, draw(s, o))
             r == minimax(new_state, depth - 1, opponent(p), ~is_maximizing, o)
             better == improves(is_maximizing, r.eval, acc.eval)
         IN  minimax_loop(s, depth, p, is_maximizing, o, moves, i + 1,
                 [move  |-> IF better THEN Some(move_candidate) ELSE acc.move,
                  eval  |-> IF better THEN r.eval ELSE acc.eval,
                  nodes |-> acc.nodes + r.nodes])

minimax(s, depth, p, is_maximizing, o) ==
    IF depth = 0 \/ is_terminal(s) THEN leaf(s, p)
    ELSE LET moves == generate_moves(s, p)
         IN  IF moves = <<>> THEN leaf(s, p)
             ELSE minimax_loop(s, depth, p, is_maximizing, o, moves, 1,
                      [move  |-> None,
                       eval  |-> IF is_maximizing THEN NEG_INFINITY ELSE INFINITY,
                       nodes |-> 1])

\* the fallback attributed to the other player
default_move_by_opponent(s, p) == Move("Accept", opponent(p), None, 50)

default_move(s, p) == Move("Accept", p, None, 50)

\* the counter left as the previous call set it
counter_kept(nodes_explored) == nodes_explored

\* self.nodes_explored = 0 at the start of search()
reset_counter(nodes_explored) == 0

MinimaxSearch_search(self, s, p, o) ==
    LET r == minimax(s, self.max_depth, p, TRUE, o)
        nodes_explored == reset_counter(self.nodes_explored) + r.nodes
    IN  [best_move      |-> IF r.move = None THEN default_move(s, p) ELSE r.move[1],
         evaluation     |-> r.eval,
         nodes_explored |-> nodes_explored,
         depth_reached  |-> self.max_depth]

(***************************************************************************)
(* alpha_beta.rs                                                            *)
(***************************************************************************)
\* the comparison of the cutoff test with its operands exchanged
cutoff_swapped(alpha, beta) == alpha <= beta

\* `if beta <= alpha { break; }`
cutoff(alpha, beta) == beta <= alpha

RECURSIVE alpha_beta(_, _, _, _, _, _, _), alpha_beta_loop(_, _, _, _, _, _, _, _, _, _)

alpha_beta_loop(s, depth, alpha, beta, p, is_maximizing, o, moves, i, acc) ==
    IF i > Len(moves) THEN acc
    ELSE LET move_candidate == moves[i]
             new_state == apply_move(s, move_candidate, draw(s, o))
             r == alpha_beta(new_state, depth - 1, alpha, beta, opponent(p),
                             ~is_maximizing, o)
             better == improves(is_maximizing, r.eval, acc.eval)
             acc2 == [move  |-> IF better THEN Some(move_candidate) ELSE acc.move,
                      eval  |-> IF better THEN r.eval ELSE acc.eval,
                      nodes |-> acc.nodes + r.nodes]
             alpha2 == IF is_maximizing THEN Max(alpha, r.eval) ELSE alpha
             beta2  == IF is_maximizing THEN beta ELSE Min(beta, r.eval)
         IN  IF cutoff(alpha2, beta2) THEN acc2
             ELSE alpha_beta_loop(s, depth, alpha2, beta2, p, is_maximizing, o,
                                  moves, i + 1, acc2)

alpha_beta(s, depth, alpha, beta, p, is_maximizing, o) ==
    IF depth = 0 \/ is_terminal(s) THEN leaf(s, p)
    ELSE LET moves == generate_moves(s, p)
         IN  IF moves = <<>> THEN leaf(s, p)
             ELSE alpha_beta_loop(s, depth, alpha, beta, p, is_maximizing, o, moves, 1,
                      [move  |-> None,
                       eval  |-> IF is_maximizing THEN NEG_INFINITY ELSE INFINITY,
                       nodes |-> 1])

\* Iterator::max_by over the collected results: of several equally maximum
\* elements the last one is returned
RECURSIVE max_by(_, _, _)
max_by(results, i, best) ==
    IF i > Len(results) THEN best
    ELSE max_by(results, i + 1, IF results[i][2] >= best[2] THEN results[i] ELSE best)

\* The workers' counters (local_search.nodes_explored) are dropped with the
\* workers; nodes counts what reaches self.nodes_explored: nothing.
\* par_iter().map().collect() keeps the results in the order of `moves`.
parallel_alpha_beta(s, depth, p, o) ==
    LET moves == generate_moves(s, p)
    IN  IF moves = <<>> THEN [move |-> None, eval |-> evaluate(s, p), nodes |-> 0]
        ELSE LET results == [i \in 1..Len(moves) |->
                                <<moves[i],
                                  alpha_beta(apply_move(s, moves[i], draw(s, o)), depth - 1,
                                             NEG_INFINITY, INFINITY, opponent(p), FALSE, o).eval>>]
                 best == max_by(results, 2, results[1])
             IN  [move |-> Some(best[1]), eval |-> best[2], nodes |-> 0]

\* `if self.enable_parallel && self.max_depth > 3`
takes_parallel(self) == self.enable_parallel /\ self.max_depth > 3

MoveResult(m) == [action |-> m.action, confidence |-> m.confidence]

AlphaBetaSearch_search(self, s, p, o) ==
    LET r == IF takes_parallel(self)
             THEN parallel_alpha_beta(s, self.max_depth, p, o)
             ELSE alpha_beta(s, self.max_depth, NEG_INFINITY, INFINITY, p, TRUE, o)
        nodes_explored == reset_counter(self.nodes_explored) + r.nodes
    IN  [best_move      |-> IF r.move = None THEN None ELSE Some(MoveResult(r.move[1])),
         evaluation     |-> r.eval,
         nodes_explored |-> nodes_explored,
         depth_reached  |-> self.max_depth]

MinimaxSearch_new(max_depth) ==
    [kind |-> "MinimaxSearch", max_depth |-> max_depth, nodes_explored |-> 0,
     enable_parallel |-> FALSE]

AlphaBetaSearch_new(max_depth, enable_parallel) ==
    [kind |-> "AlphaBetaSearch", max_depth |-> max_depth, nodes_explored |-> 0,
     enable_parallel |-> enable_parallel]

(***************************************************************************)
(* Inputs.                                                                  *)
(***************************************************************************)
Near(x) == (x - Spread)..(x + Spread)

\* a claim as generate_claim_moves builds it
GeneratedClaim(i) == generate_claim_moves(GameState(1, "Claim", 50, 50, None, <<>>), Player1)[i].claim[1]

AllKeys == {ClaimKey(GeneratedClaim(i)) : i \in 1..16}
FirstKeys == {ClaimKey(GeneratedClaim(i)) : i \in 1..OracleWidth}
Oracles == (SUBSET FirstKeys) \cup {AllKeys \ S : S \in SUBSET FirstKeys}

\* move histories a caller may hand in (confidences anywhere in [0, 1])
History0 == <<>>
History2 == << Move("MakeClaim", Player1, Some(GeneratedClaim(1)), 100),
               Move("Accept", Player2, None, 0) >>
History3 == << Move("Accept", Player1, None, 100),
               Move("Challenge", Player2, None, 0),
               Move("Accept", Player1, None, 50) >>
History6 == << Move("Accept", Player1, None, 0),
               Move("Challenge", Player2, None, 100),
               Move("Accept", Player2, None, 100),
               Move("Challenge", Player2, None, 100),
               Move("Accept", Player1, None, 100),
               Move("Challenge", Player1, None, 100) >>

\* Evaluator inputs: trust around every threshold the evaluator tests, the
\* values of its unit tests, and two far values; rounds on both sides of the
\* late-game threshold up to the largest u8.
EvalTrust == Near(-50) \cup Near(-40) \cup Near(0) \cup Near(80) \cup Near(90) \cup Near(100)
                 \cup {20, 30, 50, 70} \cup {-150, 150}
EvalRounds == {1, 5, 10, 15, 16, 20, 255}
EvalStates ==
    {GameState(r, "Claim", t1, t2, None, h) :
        r \in EvalRounds, t1 \in EvalTrust, t2 \in EvalTrust,
        h \in {History0, History3, History6}}

\* The shapes of a root: phase, pending claim and history.  History2 is two
\* plies long, so that the momentum term is live at the nodes below the root.
Shapes == { <<"Claim", None, History0>>,
            <<"Claim", None, History2>>,
            <<"Challenge", Some(GeneratedClaim(1)), History2>>,
            <<"Challenge", None, History0>>,
            <<"Resolution", Some(GeneratedClaim(16)), History2>> }

\* GameTree inputs: every shape, round and trust around the terminal thresholds.
TreeTrust == Near(-50) \cup Near(100) \cup {50}
TreeRounds == Near(20) \cup {5}
TreeStates ==
    {GameState(r, sh[1], t1, t2, sh[2], sh[3]) :
        r \in TreeRounds, t1 \in TreeTrust, t2 \in TreeTrust, sh \in Shapes}

\* Search roots: the state of the crate's tests and an uneven one, at the
\* first round and at the last, in every shape.
SearchTrust == { <<50, 50>>, <<60, 45>> }
SearchRounds == {1, 20}
SearchStates ==
    {GameState(r, sh[1], t[1], t[2], sh[2], sh[3]) :
        r \in SearchRounds, t \in SearchTrust, sh \in Shapes}

(***************************************************************************)
(* Direct calls of the evaluator and of the game tree.                      *)
(***************************************************************************)
CallEvaluate ==
    /\ call' = Some([fn |-> "evaluate", ret |-> evaluate(state, player)])
    /\ UNCHANGED <<state, player, oracle, searcher, result>>

CallIsTerminal ==
    /\ call' = Some([fn |-> "is_terminal", ret |-> is_terminal(state)])
    /\ UNCHANGED <<state, player, oracle, searcher, result>>

CallGenerateMoves ==
    /\ call' = Some([fn |-> "generate_moves", ret |-> generate_moves(state, player)])
    /\ UNCHANGED <<state, player, oracle, searcher, result>>

\* apply_move on the root for a move generated for `player`: what a search
\* does with each root move.  `on` is the state the move is applied to and
\* `ply` the number of moves between the root and `on`.
CallApplyMove ==
    /\ \E i \in DOMAIN generate_moves(state, player), is_successful \in BOOLEAN :
          LET m == generate_moves(state, player)[i]
          IN  call' = Some([fn |-> "apply_move", on |-> state, ply |-> 0, move |-> m,
                            is_successful |-> is_successful,
                            ret |-> apply_move(state, m, is_successful)])
    /\ UNCHANGED <<state, player, oracle, searcher, result>>

\* the player a search moves for at a node `ply` moves below the root
ActingPlayer(ply) == IF ply % 2 = 0 THEN player ELSE opponent(player)

\* apply_move on the state the last apply_move returned, for a move generated
\* for the player acting there: the recursion of a search one ply further down.
ExpandChild ==
    /\ call # None
    /\ call[1].fn = "apply_move"
    /\ LET node == call[1].ret
           ply  == call[1].ply + 1
       IN  \E i \in DOMAIN generate_moves(node, ActingPlayer(ply)), is_successful \in BOOLEAN :
              LET m == generate_moves(node, ActingPlayer(ply))[i]
              IN  call' = Some([fn |-> "apply_move", on |-> node, ply |-> ply, move |-> m,
                                is_successful |-> is_successful,
                                ret |-> apply_move(node, m, is_successful)])
    /\ UNCHANGED <<state, player, oracle, searcher, result>>

InitEval ==
    /\ state \in EvalStates
    /\ player \in Players
    /\ oracle = {}
    /\ searcher = None
    /\ result = None
    /\ call = None

NextEval == CallEvaluate

SpecEval == InitEval /\ [][NextEval]_vars

InitTree ==
    /\ state \in TreeStates
    /\ player \in Players
    /\ oracle = {}
    /\ searcher = None
    /\ result = None
    /\ call = None

NextTree == CallIsTerminal \/ CallGenerateMoves

SpecTree == InitTree /\ [][NextTree]_vars

InitApply ==
    /\ state \in SearchStates
    /\ player \in Players
    /\ oracle = {}
    /\ searcher = None
    /\ result = None
    /\ call = None

NextApply == CallApplyMove \/ ExpandChild

SpecApply == InitApply /\ [][NextApply]_vars

(***************************************************************************)
(* Searches.                                                                *)
(***************************************************************************)
NewMinimaxSearch ==
    /\ \E d \in 0..MaxDepth : searcher' = Some(MinimaxSearch_new(d))
    /\ result' = None
    /\ UNCHANGED <<state, player, oracle, call>>

NewAlphaBetaSearch ==
    /\ \E d \in 0..MaxDepth, par \in BOOLEAN : searcher' = Some(AlphaBetaSearch_new(d, par))
    /\ result' = None
    /\ UNCHANGED <<state, player, oracle, call>>

SetParallel ==
    /\ searcher # None
    /\ searcher[1].kind = "AlphaBetaSearch"
    /\ \E enable \in BOOLEAN : searcher' = Some([searcher[1] EXCEPT !.enable_parallel = enable])
    /\ result' = None
    /\ UNCHANGED <<state, player, oracle, call>>

SearchMinimax ==
    /\ searcher # None
    /\ searcher[1].kind = "MinimaxSearch"
    /\ LET r == MinimaxSearch_search(searcher[1], state, player, oracle)
       IN  /\ result' = Some(r)
           /\ searcher' = Some([searcher[1] EXCEPT !.nodes_explored = r.nodes_explored])
    /\ UNCHANGED <<state, player, oracle, call>>

SearchAlphaBeta ==
    /\ searcher # None
    /\ searcher[1].kind = "AlphaBetaSearch"
    /\ LET r == AlphaBetaSearch_search(searcher[1], state, player, oracle)
       IN  /\ result' = Some(r)
           /\ searcher' = Some([searcher[1] EXCEPT !.nodes_explored = r.nodes_explored])
    /\ UNCHANGED <<state, player, oracle, call>>

Init ==
    /\ state \in SearchStates
    /\ player \in Players
    /\ oracle \in Oracles
    /\ searcher = None
    /\ result = None
    /\ call = None

Next ==
    \/ NewMinimaxSearch
    \/ NewAlphaBetaSearch
    \/ SetParallel
    \/ SearchMinimax
    \/ SearchAlphaBeta

Spec == Init /\ [][Next]_vars

(***************************************************************************)
(* ffi.rs: the C entry points.  An input is what the caller's pointer       *)
(* holds: nothing (a null pointer), bytes that are not UTF-8, text that is  *)
(* not the JSON of a GameState, or the JSON of a GameState.                 *)
(***************************************************************************)
NullPointer == [kind |-> "null"]
InvalidUtf8 == [kind |-> "invalid_utf8"]
InvalidJson == [kind |-> "invalid_json"]
JsonOf(s)   == [kind |-> "json", value |-> s]

RawInputs(s) == {NullPointer, InvalidUtf8, InvalidJson, JsonOf(s)}

\* is_null, CStr::to_str and serde_json::from_str in turn: Some(state) or None
decode(input) ==
    IF input.kind = "null" THEN None
    ELSE IF input.kind = "invalid_utf8" THEN None
    ELSE IF input.kind = "invalid_json" THEN None
    ELSE Some(input.value)

PlayerIds == {0, 1, 2}

player_of_id(player_id) == IF player_id = 1 THEN Player1 ELSE Player2

\* evaluate_state: the score, or 0.0 when the input does not decode
evaluate_state(input, player_id) ==
    IF decode(input) = None
    THEN 0
    ELSE evaluate(decode(input)[1], player_of_id(player_id))

\* search_optimal_move: a pointer to the serialized result (Some), or the
\* null pointer (None) when the input does not decode
search_optimal_move(input, max_depth, player_id, o) ==
    IF decode(input) = None
    THEN None
    ELSE Some(AlphaBetaSearch_search(AlphaBetaSearch_new(max_depth, TRUE),
                                     decode(input)[1], player_of_id(player_id), o))

\* The entry points keep nothing between calls, so a behaviour makes one call.
FfiEvaluateState ==
    /\ call = None
    /\ \E input \in RawInputs(state), player_id \in PlayerIds :
          /\ player_of_id(player_id) = player
          /\ call' = Some([fn |-> "evaluate_state", input |-> input,
                           player_id |-> player_id,
                           ret |-> evaluate_state(input, player_id)])
    /\ UNCHANGED <<state, player, oracle, searcher, result>>

FfiSearchOptimalMove ==
    /\ call = None
    /\ \E input \in RawInputs(state), max_depth \in 0..MaxDepth, player_id \in PlayerIds :
          /\ player_of_id(player_id) = player
          /\ call' = Some([fn |-> "search_optimal_move", input |-> input,
                           max_depth |-> max_depth, player_id |-> player_id,
                           ret |-> search_optimal_move(input, max_depth, player_id, oracle)])
    /\ UNCHANGED <<state, player, oracle, searcher, result>>

InitFfi ==
    /\ state \in SearchStates
    /\ player \in Players
    /\ oracle \in Oracles
    /\ searcher = None
    /\ result = None
    /\ call = None

NextFfi == FfiEvaluateState \/ FfiSearchOptimalMove

SpecFfi == InitFfi /\ [][NextFfi]_vars

(***************************************************************************)
(* Two searches on the same inputs.  apply_move draws afresh every time it  *)
(* is called, so the draws of the second search are not those of the first. *)
(* `call` keeps what the earlier search was and returned.                   *)
(***************************************************************************)
\* the draws of a search in which every claim is exposed, or every claim holds
ResampledOracles == {{}, AllKeys}

PendingClaimStates == {s \in SearchStates : s.current_claim # None}

\* the next search starts: rand::random() yields new draws
Resample ==
    /\ result # None
    /\ ~(searcher[1].kind = "AlphaBetaSearch" /\ takes_parallel(searcher[1]))
    /\ call' = Some([fn |-> "search", kind |-> searcher[1].kind,
                     max_depth |-> searcher[1].max_depth,
                     evaluation |-> result[1].evaluation, oracle |-> oracle])
    /\ oracle' \in ResampledOracles
    /\ result' = None
    /\ UNCHANGED <<state, player, searcher>>

InitResample ==
    /\ state \in PendingClaimStates
    /\ player \in Players
    /\ oracle \in ResampledOracles
    /\ searcher = None
    /\ result = None
    /\ call = None

NextResample ==
    \/ NewMinimaxSearch
    \/ NewAlphaBetaSearch
    \/ SearchMinimax
    \/ SearchAlphaBeta
    \/ Resample

SpecResample == InitResample /\ [][NextResample]_vars

(***************************************************************************)
(* Claims.                                                                  *)
(***************************************************************************)
Searched == result # None
ByMinimax == Searched /\ searcher[1].kind = "MinimaxSearch"
ByAlphaBeta == Searched /\ searcher[1].kind = "AlphaBetaSearch"
BySequentialAlphaBeta == ByAlphaBeta /\ ~takes_parallel(searcher[1])
ByParallelAlphaBeta == ByAlphaBeta /\ takes_parallel(searcher[1])

\* what minimax returns for the inputs of the last search, with the same draws
Reference == minimax(state, searcher[1].max_depth, player, TRUE, oracle)

\* C1: with the draws of apply_move fixed (the same oracle for both), the root
\* evaluation returned by a sequential alpha-beta search, bounds seeded at
\* -infinity/+infinity, is the root evaluation minimax returns for the same
\* root state, searching player and depth bound.
C1_SameRootEvaluation ==
    BySequentialAlphaBeta => result[1].evaluation = Reference.eval

\* C1 witness: a sequential alpha-beta search that cut siblings off (it visited
\* fewer nodes than minimax) and returned minimax's evaluation.
C1_Witness ==
    /\ BySequentialAlphaBeta
    /\ result[1].nodes_explored < Reference.nodes
    /\ result[1].evaluation = Reference.eval

\* Some node of the tree searched from (s, depth, p) has two sibling moves
\* whose (minimax) values differ.
RECURSIVE HasDifferingSiblings(_, _, _, _, _)
HasDifferingSiblings(s, depth, p, is_maximizing, o) ==
    IF depth = 0 \/ is_terminal(s) \/ generate_moves(s, p) = <<>> THEN FALSE
    ELSE LET moves == generate_moves(s, p)
             child(i) == apply_move(s, moves[i], draw(s, o))
             value(i) == minimax(child(i), depth - 1, opponent(p), ~is_maximizing, o).eval
         IN  \/ \E i, j \in DOMAIN moves : value(i) # value(j)
             \/ \E i \in DOMAIN moves :
                    HasDifferingSiblings(child(i), depth - 1, opponent(p), ~is_maximizing, o)

\* C2 as stated: with the draws fixed, sequential alpha-beta visits at most as
\* many nodes as minimax for the same state, depth and player, and strictly
\* fewer whenever depth >= 2 and some node has two sibling moves of differing
\* value.
C2_StrictWheneverSiblingsDiffer ==
    BySequentialAlphaBeta =>
        /\ result[1].nodes_explored <= Reference.nodes
        /\ (searcher[1].max_depth >= 2
              /\ HasDifferingSiblings(state, searcher[1].max_depth, player, TRUE, oracle))
           => result[1].nodes_explored < Reference.nodes

\* C2 as amended: with the draws fixed, sequential alpha-beta visits at most as
\* many nodes as minimax for the same state, depth and player; it visits
\* strictly fewer only if depth >= 2 and the root is a non-terminal
\* Claim-phase state (a cutoff needs a node two plies below the root).
C2_NodeCountAtMostMinimax ==
    BySequentialAlphaBeta =>
        /\ result[1].nodes_explored <= Reference.nodes
        /\ result[1].nodes_explored < Reference.nodes
           => (searcher[1].max_depth >= 2 /\ state.phase = "Claim" /\ ~is_terminal(state))

\* C2 witness: a depth >= 2 sequential alpha-beta search from a Claim-phase
\* root, where minimax visits all 49 nodes and alpha-beta fewer.
C2_Witness ==
    /\ BySequentialAlphaBeta
    /\ searcher[1].max_depth >= 2
    /\ state.phase = "Claim"
    /\ Reference.nodes = 49
    /\ result[1].nodes_explored < 49

\* the move a search reports when it selected none
NoMoveSelected ==
    IF ByMinimax THEN result[1].best_move = default_move(state, player)
    ELSE result[1].best_move = None

\* C3: in every search mode (minimax, sequential alpha-beta, parallel
\* alpha-beta) a terminal root is a leaf: no move is generated for it or
\* applied to it, and the search returns the evaluator's score of the root
\* itself for the searching player, with no move selected.
C3_TerminalRootIsLeaf ==
    (Searched /\ is_terminal(state)) =>
        /\ result[1].evaluation = evaluate(state, player)
        /\ NoMoveSelected

\* C4: an alpha-beta search with parallelism enabled and max_depth 4 from a
\* non-terminal Claim-phase state returns nodes_explored > 0.
C4_ParallelCountsNodes ==
    (ByParallelAlphaBeta /\ searcher[1].max_depth = 4
        /\ state.phase = "Claim" /\ ~is_terminal(state))
    => result[1].nodes_explored > 0

\* The number of nodes of the tree below and including (s, p): one for the
\* node, and, unless it is a leaf (depth exhausted, terminal, no moves), the
\* nodes of every child.
RECURSIVE TreeNodes(_, _, _, _), ChildrenNodes(_, _, _, _, _)
ChildrenNodes(s, depth, p, o, i) ==
    IF i > Len(generate_moves(s, p)) THEN 0
    ELSE TreeNodes(apply_move(s, generate_moves(s, p)[i], draw(s, o)), depth - 1, opponent(p), o)
         + ChildrenNodes(s, depth, p, o, i + 1)
TreeNodes(s, depth, p, o) ==
    IF depth = 0 \/ is_terminal(s) THEN 1 ELSE 1 + ChildrenNodes(s, depth, p, o, 1)

\* the state of the crate's search tests: round 1, Claim phase, trust 50/50
TestState == GameState(1, "Claim", 50, 50, None, <<>>)

\* C5: whatever calls the searcher served before, a sequential search result's
\* nodes_explored is the number of nodes visited during that call alone
\* (for minimax every node of the depth-bounded tree, for alpha-beta the nodes
\* its recursion entered), terminal evaluations included, hence at least 1; the
\* searcher's counter holds the same value; and depth_reached is the configured
\* depth bound (4 for a depth-4 search from the test state).
C5_NodesOfThisCallOnly ==
    (Searched /\ ~ByParallelAlphaBeta) =>
        /\ result[1].nodes_explored >= 1
        /\ result[1].nodes_explored = searcher[1].nodes_explored
        /\ ByMinimax =>
              result[1].nodes_explored = TreeNodes(state, searcher[1].max_depth, player, oracle)
        /\ ByAlphaBeta =>
              result[1].nodes_explored =
                  alpha_beta(state, searcher[1].max_depth, NEG_INFINITY, INFINITY,
                             player, TRUE, oracle).nodes
        /\ result[1].depth_reached = searcher[1].max_depth
        /\ (searcher[1].max_depth = 4 /\ state = TestState) => result[1].depth_reached = 4

\* C5 witness: a depth-4 minimax search from the test state that reports the
\* 49 nodes of its tree and depth 4.
C5_Witness ==
    /\ ByMinimax
    /\ state = TestState
    /\ searcher[1].max_depth = 4
    /\ result[1].nodes_explored = 49
    /\ result[1].depth_reached = 4

Evaluated == call # None /\ call[1].fn = "evaluate"

\* C6: for every game state (any round, any trust values, any move history
\* with confidences in [0, 1]) and either player, evaluate returns a value
\* within [-100, 100].
C6_EvaluateWithinRange ==
    Evaluated => (call[1].ret >= -100 * EvalScale /\ call[1].ret <= 100 * EvalScale)

\* C6 witness: evaluate was called on a state whose weighted sum exceeds 100
\* and returned exactly 100.
C6_Witness ==
    /\ Evaluated
    /\ weighted_sum(state, player) > 100 * EvalScale
    /\ call[1].ret = 100 * EvalScale

\* the states of the evaluator's unit tests: round 10, no move played
Round10NoHistory == state.round = 10 /\ state.move_history = <<>>

\* C7 as stated: at round 10 with empty history, whenever one player's trust
\* is strictly higher, evaluate is strictly positive for the higher-trust
\* player and strictly negative for the lower-trust player.
C7_FavorsHigherTrust ==
    (Evaluated /\ Round10NoHistory) =>
        /\ my_trust(state, player) > opp_trust(state, player) => call[1].ret > 0
        /\ my_trust(state, player) < opp_trust(state, player) => call[1].ret < 0

\* C7 as amended: the same, for the states in which the higher trust is above
\* 0 and the lower trust is below 80 (as in 80 vs 30 and 20 vs 70).
C7_FavorsHigherTrustAbove0Below80 ==
    (Evaluated /\ Round10NoHistory
        /\ Max(state.player1_trust, state.player2_trust) > 0
        /\ Min(state.player1_trust, state.player2_trust) < 80) =>
        /\ my_trust(state, player) > opp_trust(state, player) => call[1].ret > 0
        /\ my_trust(state, player) < opp_trust(state, player) => call[1].ret < 0

\* C7 witness: trust 80 vs 30 at round 10, evaluated for player 2, the
\* lower-trust player, with a strictly negative score.
C7_Witness ==
    /\ Evaluated
    /\ Round10NoHistory
    /\ state.player1_trust = 80 /\ state.player2_trust = 30
    /\ player = Player2
    /\ call[1].ret < 0

\* C8 as stated: at round 10 with empty history and equal trust, evaluate
\* returns a score of magnitude below 10 for either player.
C8_BalancedBelow10 ==
    (Evaluated /\ Round10NoHistory /\ state.player1_trust = state.player2_trust) =>
        (call[1].ret > -10 * EvalScale /\ call[1].ret < 10 * EvalScale)

\* C8 as amended: at round 10 with empty history and equal trust t, evaluate
\* returns for either player a score of magnitude at most 10: exactly 0 when
\* 0 < t < 80, exactly 10 when t >= 80 and exactly -10 when t <= 0.
C8_BalancedAtMost10 ==
    (Evaluated /\ Round10NoHistory /\ state.player1_trust = state.player2_trust) =>
        /\ call[1].ret >= -10 * EvalScale /\ call[1].ret <= 10 * EvalScale
        /\ (state.player1_trust > 0 /\ state.player1_trust < 80) => call[1].ret = 0
        /\ state.player1_trust >= 80 => call[1].ret = 10 * EvalScale
        /\ state.player1_trust <= 0 => call[1].ret = -10 * EvalScale

\* C8 witness: both players at trust 90 at round 10, where the two position
\* terms cancel and the score is 10.
C8_Witness ==
    /\ Evaluated
    /\ Round10NoHistory
    /\ state.player1_trust = 90 /\ state.player2_trust = 90
    /\ call[1].ret = 10 * EvalScale

TerminalAsked == call # None /\ call[1].fn = "is_terminal"

\* C9: is_terminal is true exactly when round >= 20, or the larger trust is
\* >= 100, or the smaller trust is <= -50, whatever the phase, the pending
\* claim and the history; so it is true at round 20, true at trust 100 or -50,
\* and false at round 5 with trust 50/50.
C9_TerminalExactly ==
    TerminalAsked =>
        /\ call[1].ret <=>
              (\/ state.round \in 20..255
               \/ Max(state.player1_trust, state.player2_trust) >= 100
               \/ Min(state.player1_trust, state.player2_trust) <= -50)
        /\ state.round = 20 => call[1].ret
        /\ (100 \in {state.player1_trust, state.player2_trust}) => call[1].ret
        /\ (-50 \in {state.player1_trust, state.player2_trust}) => call[1].ret
        /\ (state.round = 5 /\ state.player1_trust = 50 /\ state.player2_trust = 50)
              => ~call[1].ret

\* C9 witness: is_terminal answered true at round 20 with trust 50/50 in the
\* Challenge phase with a pending claim and a history.
C9_Witness ==
    /\ TerminalAsked
    /\ state.round = 20 /\ state.player1_trust = 50 /\ state.player2_trust = 50
    /\ state.phase = "Challenge" /\ state.current_claim # None /\ state.move_history # <<>>
    /\ call[1].ret

MovesAsked == call # None /\ call[1].fn = "generate_moves"

\* C10: generate_moves yields, in Claim phase, exactly 16 MakeClaim moves, one
\* per boldness in {0.2, 0.4, 0.6, 0.8} and claim type, each with
\* is_bluff = (boldness > 0.5); in Challenge phase exactly Challenge then
\* Accept; in Resolution phase no move; and every move carries the player it
\* was generated for.
C10_GeneratedMoves ==
    MovesAsked =>
        LET moves == call[1].ret
        IN  /\ state.phase = "Claim" =>
                  /\ Len(moves) = 16
                  /\ \A i \in 1..Len(moves) :
                        /\ moves[i].action = "MakeClaim"
                        /\ moves[i].claim # None
                        /\ moves[i].claim[1].is_bluff <=> (moves[i].claim[1].boldness > 5)
                  /\ {<<moves[i].claim[1].boldness, moves[i].claim[1].claim_type>> :
                          i \in 1..Len(moves)}
                        = {2, 4, 6, 8}
                            \X {"Information", "Prediction", "Accusation", "Alliance"}
            /\ state.phase = "Challenge" =>
                  /\ Len(moves) = 2
                  /\ moves[1].action = "Challenge"
                  /\ moves[2].action = "Accept"
            /\ state.phase = "Resolution" => Len(moves) = 0
            /\ \A i \in 1..Len(moves) : moves[i].player = player

\* C10 witness: generate_moves was called for player 2 in the Challenge phase
\* and returned its two moves.
C10_Witness ==
    /\ MovesAsked
    /\ state.phase = "Challenge"
    /\ player = Player2
    /\ Len(call[1].ret) = 2

Applied == call # None /\ call[1].fn = "apply_move"

\* C11: applying a move to a state with a pending claim: a Challenge changes
\* the challenging player's trust by exactly +15 when the claim is exposed and
\* exactly -15 when it held, and leaves the other player's trust unchanged; an
\* Accept adds exactly 5 to the trust of the other player and leaves the
\* accepting player's trust unchanged.  Either way the phase becomes
\* Resolution, round and current_claim are unchanged, and the state the move
\* was applied to is as it was (the root is still the caller's state).
C11_ResolutionFrame ==
    (Applied /\ call[1].on.current_claim # None
        /\ call[1].move.action \in {"Challenge", "Accept"}) =>
        LET on  == call[1].on
            ret == call[1].ret
            me  == call[1].move.player
        IN  /\ call[1].move.action = "Challenge" =>
                  /\ my_trust(ret, me) - my_trust(on, me)
                        = (IF call[1].is_successful THEN -15 ELSE 15)
                  /\ opp_trust(ret, me) = opp_trust(on, me)
            /\ call[1].move.action = "Accept" =>
                  /\ opp_trust(ret, me) - opp_trust(on, me) = 5
                  /\ my_trust(ret, me) = my_trust(on, me)
            /\ ret.phase = "Resolution"
            /\ ret.round = on.round
            /\ ret.current_claim = on.current_claim
            /\ call[1].ply = 0 => on = state

\* C11 witness: two plies below a Claim-phase root, player 1 accepted the
\* claim player 2 made, and player 2's trust went from 45 to 50.
C11_Witness ==
    /\ Applied
    /\ call[1].ply = 1
    /\ call[1].move.action = "Accept"
    /\ call[1].move.player = Player1
    /\ call[1].on.player2_trust = 45
    /\ call[1].ret.player2_trust = 50

FfiCalled == call # None /\ call[1].fn \in {"evaluate_state", "search_optimal_move"}

\* what the entry point of the last call returns on a null pointer
FailureSignal ==
    IF call[1].fn = "evaluate_state"
    THEN evaluate_state(NullPointer, call[1].player_id)
    ELSE search_optimal_move(NullPointer, call[1].max_depth, call[1].player_id, oracle)

\* C12: at the boundary the outcome of search_optimal_move and of
\* evaluate_state on a null or undecodable input is a failure signal that no
\* decodable input produces: every call on an undecodable input returns it
\* and no call on a decodable input does.
C12_FailureSignalDistinct ==
    FfiCalled =>
        ((decode(call[1].input) = None) <=> (call[1].ret = FailureSignal))

\* the root of the last search selects no move: depth bound 0, terminal root,
\* or no legal move
RootYieldsNoMove ==
    \/ searcher[1].max_depth = 0
    \/ is_terminal(state)
    \/ generate_moves(state, player) = <<>>

RootMoves == {generate_moves(state, player)[i] : i \in DOMAIN generate_moves(state, player)}

\* C13: a search whose root yields no selected move (depth bound 0, terminal
\* root, or no legal moves) is not an error: the evaluation returned is the
\* evaluator's score of the root for the searching player; minimax returns
\* the fallback move Accept by the searching player with confidence 0.5 and
\* sequential alpha-beta returns no move.  When the root is non-terminal,
\* depth > 0 and moves exist, the returned move is one of
\* generate_moves(root, player) (for alpha-beta, its action and confidence).
C13_NoMoveIsNotAnError ==
    Searched =>
        IF RootYieldsNoMove
        THEN /\ ByMinimax =>
                  /\ result[1].evaluation = evaluate(state, player)
                  /\ result[1].best_move = Move("Accept", player, None, 50)
             /\ BySequentialAlphaBeta =>
                  /\ result[1].evaluation = evaluate(state, player)
                  /\ result[1].best_move = None
        ELSE /\ ByMinimax => result[1].best_move \in RootMoves
             /\ ByAlphaBeta =>
                  /\ result[1].best_move # None
                  /\ result[1].best_move[1] \in {MoveResult(m) : m \in RootMoves}

\* C13 witness: minimax at depth 3 on a Resolution-phase root with trust 60/45
\* returned the fallback Accept and the root's score for player 2, which is
\* not the score for player 1.
C13_Witness ==
    /\ ByMinimax
    /\ searcher[1].max_depth = 3
    /\ state.phase = "Resolution"
    /\ player = Player2
    /\ result[1].best_move.action = "Accept"
    /\ result[1].best_move.player = Player2
    /\ result[1].evaluation = evaluate(state, Player2)
    /\ result[1].evaluation # evaluate(state, Player1)

\* the evaluation the worker of root move i hands to the reduction
WorkerEval(i) ==
    alpha_beta(apply_move(state, generate_moves(state, player)[i], draw(state, oracle)),
               searcher[1].max_depth - 1, NEG_INFINITY, INFINITY,
               opponent(player), FALSE, oracle).eval

\* the first position of the collected results holding the best evaluation
FirstBestWorker ==
    CHOOSE i \in DOMAIN generate_moves(state, player) :
        /\ \A j \in DOMAIN generate_moves(state, player) : WorkerEval(j) <= WorkerEval(i)
        /\ \A j \in 1..(i - 1) : WorkerEval(j) < WorkerEval(i)

\* C14: in the parallel alpha-beta variant, when several root moves have the
\* same best evaluation, the move returned is the one the reduction
\* encounters first in the collected sequence of (move, evaluation) results.
C14_ParallelTieKeepsFirst ==
    (ByParallelAlphaBeta /\ generate_moves(state, player) # <<>>) =>
        /\ result[1].evaluation = WorkerEval(FirstBestWorker)
        /\ result[1].best_move
              = Some(MoveResult(generate_moves(state, player)[FirstBestWorker]))

\* a node that is not a leaf: the search loops over its moves
Expands(s, depth, p) == depth > 0 /\ ~is_terminal(s) /\ generate_moves(s, p) # <<>>

\* the exact value of the child reached by move i of node s
ChildValue(s, depth, p, is_maximizing, o, i) ==
    minimax(apply_move(s, generate_moves(s, p)[i], draw(s, o)), depth - 1,
            opponent(p), ~is_maximizing, o).eval

\* the first move, in generation order, whose child has the best value: the
\* maximum at a maximizing node, the minimum at a minimizing one
FirstBest(s, depth, p, is_maximizing, o) ==
    LET vals == [i \in DOMAIN generate_moves(s, p) |->
                    ChildValue(s, depth, p, is_maximizing, o, i)]
        i == CHOOSE i \in DOMAIN vals :
                /\ \A j \in DOMAIN vals :
                      IF is_maximizing THEN vals[j] <= vals[i] ELSE vals[j] >= vals[i]
                /\ \A j \in 1..(i - 1) : vals[j] # vals[i]
    IN  generate_moves(s, p)[i]

\* C15: in sequential minimax and sequential alpha-beta the moves of a node
\* are explored and compared in the order generate_moves produced them, and
\* the move kept is the first one achieving the best child evaluation (the
\* maximum at maximizing nodes, the minimum at minimizing nodes): a later move
\* with an equal evaluation never replaces it.  Checked at the maximizing
\* root of every search and at each of its minimizing children.
C15_FirstBestMoveKept ==
    ((ByMinimax \/ BySequentialAlphaBeta)
        /\ Expands(state, searcher[1].max_depth, player)) =>
        LET depth == searcher[1].max_depth
            first == FirstBest(state, depth, player, TRUE, oracle)
            moves == generate_moves(state, player)
        IN  /\ ByMinimax => result[1].best_move = first
            /\ BySequentialAlphaBeta =>
                  /\ result[1].best_move = Some(MoveResult(first))
                  /\ alpha_beta(state, depth, NEG_INFINITY, INFINITY, player, TRUE,
                                oracle).move = Some(first)
            /\ \A i \in DOMAIN moves :
                  LET child == apply_move(state, moves[i], draw(state, oracle))
                      kept  == IF ByMinimax
                               THEN minimax(child, depth - 1, opponent(player), FALSE,
                                            oracle).move
                               ELSE alpha_beta(child, depth - 1, NEG_INFINITY, INFINITY,
                                               opponent(player), FALSE, oracle).move
                  IN  Expands(child, depth - 1, opponent(player)) =>
                          kept = Some(FirstBest(child, depth - 1, opponent(player),
                                                FALSE, oracle))

\* C15 witness: a sequential alpha-beta search at depth 2 from a Claim-phase
\* root in which the last generated claim is worth as much as the first, and
\* the first (boldness 0.2, confidence 0.94) was returned.
C15_Witness ==
    /\ BySequentialAlphaBeta
    /\ searcher[1].max_depth = 2
    /\ state.phase = "Claim"
    /\ ~is_terminal(state)
    /\ ChildValue(state, 2, player, TRUE, oracle, 16) = result[1].evaluation
    /\ ChildValue(state, 2, player, TRUE, oracle, 1) = result[1].evaluation
    /\ result[1].best_move = Some([action |-> "MakeClaim", confidence |-> 94])

\* C16 as stated: for every state explored by a search, the length of its
\* move_history equals its path depth from the tree root, apply_move
\* appending exactly the applied move to the end of the history and changing
\* no earlier entry, for every root state the caller may supply.
C16_HistoryLengthIsDepth ==
    Applied =>
        /\ call[1].ret.move_history = Append(call[1].on.move_history, call[1].move)
        /\ Len(call[1].ret.move_history) = call[1].ply + 1

\* C16 amended: the move_history of a state explored by a search is the
\* root's move_history followed by the moves of the path: its length is the
\* length of the root's history plus the path depth, and apply_move appends
\* exactly the applied move and changes no earlier entry.
C16_HistoryLengthIsRootPlusDepth ==
    Applied =>
        /\ call[1].ret.move_history = Append(call[1].on.move_history, call[1].move)
        /\ Len(call[1].ret.move_history) = Len(state.move_history) + call[1].ply + 1
        /\ SubSeq(call[1].ret.move_history, 1, Len(state.move_history)) = state.move_history

\* C16 witness: two plies below a root that came with two moves of history,
\* the explored state has four.
C16_Witness ==
    /\ Applied
    /\ call[1].ply = 1
    /\ Len(state.move_history) = 2
    /\ Len(call[1].ret.move_history) = 4
    /\ call[1].ret.move_history[4] = call[1].move

\* an earlier search and a later one, both sequential, same root, same
\* searching player, same depth bound
SearchedTwice ==
    /\ call # None
    /\ call[1].fn = "search"
    /\ ByMinimax \/ BySequentialAlphaBeta
    /\ call[1].max_depth = searcher[1].max_depth

\* the draw for the root's pending claim came out differently in the two searches
RootDrawDiffers ==
    (ClaimKey(state.current_claim[1]) \in call[1].oracle)
        # (ClaimKey(state.current_claim[1]) \in oracle)

\* C17: because apply_move samples the outcome of a Challenge afresh at each
\* expansion, search is not deterministic: from a root with a pending claim
\* two searches with identical inputs (the same algorithm twice, or minimax
\* and sequential alpha-beta) can return different root evaluations.  For the
\* roots drawn here they do so whenever the root is expanded in the Challenge
\* phase and the draw for its claim comes out differently, and only then.
C17_EvaluationFollowsTheDraw ==
    SearchedTwice =>
        ((result[1].evaluation # call[1].evaluation)
            <=> (/\ Expands(state, searcher[1].max_depth, player)
                 /\ state.phase = "Challenge"
                 /\ RootDrawDiffers))

\* C17 witness: minimax twice at depth 1 on the same Challenge-phase root with
\* a pending claim, with different evaluations.
C17_Witness ==
    /\ SearchedTwice
    /\ ByMinimax
    /\ call[1].kind = "MinimaxSearch"
    /\ searcher[1].max_depth = 1
    /\ state.phase = "Challenge"
    /\ state.current_claim # None
    /\ result[1].evaluation # call[1].evaluation

SetMax(S) == CHOOSE x \in S : \A y \in S : y <= x
SetMin(S) == CHOOSE x \in S : \A y \in S : x <= y

\* The value of the node s found ply moves below the root, told by the ply
\* alone: the acting player is the root player at even ply and the opponent
\* at odd ply; a leaf is scored for the acting player; an inner node takes
\* the maximum of its children when the acting player is the root player and
\* the minimum otherwise.
RECURSIVE PerspectiveValue(_, _, _, _)
PerspectiveValue(s, depth, ply, o) ==
    LET acting == ActingPlayer(ply)
        moves  == generate_moves(s, acting)
    IN  IF ~Expands(s, depth, acting) THEN evaluate(s, acting)
        ELSE LET vals == {PerspectiveValue(apply_move(s, moves[i], draw(s, o)),
                                           depth - 1, ply + 1, o) : i \in DOMAIN moves}
             IN  IF acting = player THEN SetMax(vals) ELSE SetMin(vals)

\* C18: at every node visited by minimax, sequential alpha-beta or a parallel
\* worker, is_maximizing is true exactly when the node's acting player is the
\* searching (root) player, and a leaf is scored by the evaluator for the
\* node's acting player: leaves at even ply from the root player's
\* perspective, leaves at odd ply from the opponent's.  So the evaluation a
\* search returns is the value told by ply and acting player alone; for the
\* parallel variant, the maximum of the workers' values one ply down.
C18_MaximizingIffRootPlayerActs ==
    Searched =>
        IF ByParallelAlphaBeta
        THEN generate_moves(state, player) # <<>> =>
                result[1].evaluation =
                    SetMax({PerspectiveValue(
                                apply_move(state, generate_moves(state, player)[i],
                                           draw(state, oracle)),
                                searcher[1].max_depth - 1, 1, oracle)
                            : i \in DOMAIN generate_moves(state, player)})
        ELSE result[1].evaluation
                = PerspectiveValue(state, searcher[1].max_depth, 0, oracle)

\* C18 witness: minimax at depth 1 from a Challenge-phase root with trust
\* 60/45: the leaves are at ply 1 and the evaluation returned is the score of
\* one of them for the opponent, and of none of them for the root player.
C18_Witness ==
    /\ ByMinimax
    /\ searcher[1].max_depth = 1
    /\ state.phase = "Challenge"
    /\ state.player1_trust = 60
    /\ ~is_terminal(state)
    /\ \E i \in DOMAIN generate_moves(state, player) :
          result[1].evaluation
             = evaluate(apply_move(state, generate_moves(state, player)[i],
                                   draw(state, oracle)), opponent(player))
    /\ \A i \in DOMAIN generate_moves(state, player) :
          result[1].evaluation
             # evaluate(apply_move(state, generate_moves(state, player)[i],
                                   draw(state, oracle)), player)

\* the states of the full tree below s, each with its ply below the root
RECURSIVE Visited(_, _, _, _)
Visited(s, depth, ply, o) ==
    LET acting == ActingPlayer(ply)
        moves  == generate_moves(s, acting)
    IN  {[state |-> s, ply |-> ply]}
          \cup (IF ~Expands(s, depth, acting) THEN {}
                ELSE UNION {Visited(apply_move(s, moves[i], draw(s, o)), depth - 1,
                                    ply + 1, o) : i \in DOMAIN moves})

Distance(a, b) == IF a >= b THEN a - b ELSE b - a

\* C19: no sequence of generated moves changes round or returns the phase to
\* Claim (Claim -> Challenge -> Resolution, and Resolution has no moves), so
\* every search visits nodes at most 2 plies below its root whatever the
\* depth bound: minimax with any depth bound >= 2 from a non-terminal
\* Claim-phase root visits exactly 49 nodes (1 + 16 + 32), and each trust
\* value in any visited state differs from the root's by at most 15.
C19_TreeIsTwoPliesDeep ==
    Searched =>
        /\ \A v \in Visited(state, searcher[1].max_depth, 0, oracle) :
              /\ v.ply <= 2
              /\ v.state.round = state.round
              /\ v.ply > 0 => v.state.phase # "Claim"
              /\ v.state.phase = "Resolution" => generate_moves(v.state, player) = <<>>
              /\ Distance(v.state.player1_trust, state.player1_trust) <= 15
              /\ Distance(v.state.player2_trust, state.player2_trust) <= 15
        /\ (ByMinimax /\ searcher[1].max_depth >= 2 /\ state.phase = "Claim"
                /\ ~is_terminal(state)) =>
              result[1].nodes_explored = 49

\* C19 witness: minimax with depth bound 4 from a non-terminal Claim-phase
\* root visited 49 nodes, one of them a Resolution state two plies down whose
\* trust differs from the root's by 15.
C19_Witness ==
    /\ ByMinimax
    /\ searcher[1].max_depth = 4
    /\ state.phase = "Claim"
    /\ ~is_terminal(state)
    /\ result[1].nodes_explored = 49
    /\ \E v \in Visited(state, 4, 0, oracle) :
          /\ v.ply = 2
          /\ v.state.phase = "Resolution"
          /\ Distance(v.state.player2_trust, state.player2_trust) = 15

====
